---- MODULE Spec2Model ----
(***************************************************************************)
(* Model of analyzer.py: the InteractiveAnalyzer of battle summaries.      *)
(*                                                                         *)
(* Strings are sequences of character codes (ASCII), so that splitting,    *)
(* slicing, formatting and the string order used by the sort are computed  *)
(* the way Python computes them.                                           *)
(***************************************************************************)
EXTENDS Integers, Sequences, FiniteSets, TLC

VARIABLES files, pc, summaries_data, placeholder, links,
          dpav_view, av_view, detail_windows, console

vars == <<files, pc, summaries_data, placeholder, links,
          dpav_view, av_view, detail_windows, console>>

(***************************************************************************)
(* Bounds of the model.                                                    *)
(***************************************************************************)
MaxFiles == 2

MaxClicks == 2

(***************************************************************************)
(* Character codes and string literals used by the program.                *)
(***************************************************************************)
US == 95

SLASH == 47

DotJson == <<46, 106, 115, 111, 110>>

SUMMARY == <<83, 85, 77, 77, 65, 82, 89>>

\* "battle_summaries"
Directory == <<98, 97, 116, 116, 108, 101, 95, 115, 117, 109, 109, 97, 114, 105, 101, 115>>

ZeroStr == <<48>>

Digits == 48..57

Min(a, b) == IF a < b THEN a ELSE b

\* Python s[a:b] for 0 <= a, 0 <= b
Slice(s, a, b) == SubSeq(s, a + 1, Min(b, Len(s)))

\* Python s[:-n]
DropLast(s, n) == SubSeq(s, 1, Len(s) - n)

\* Python str.split(sep) for a one-character separator
RECURSIVE SplitFrom(_, _, _, _)
SplitFrom(s, sep, i, cur) ==
    IF i > Len(s) THEN <<cur>>
    ELSE IF s[i] = sep THEN <<cur>> \o SplitFrom(s, sep, i + 1, <<>>)
    ELSE SplitFrom(s, sep, i + 1, Append(cur, s[i]))

Split(s, sep) == SplitFrom(s, sep, 1, <<>>)

\* Python string order: lexicographic by code point
RECURSIVE StrLess(_, _)
StrLess(a, b) ==
    IF Len(b) = 0 THEN FALSE
    ELSE IF Len(a) = 0 THEN TRUE
    ELSE IF a[1] < b[1] THEN TRUE
    ELSE IF a[1] > b[1] THEN FALSE
    ELSE StrLess(Tail(a), Tail(b))

StrLeq(a, b) == a = b \/ StrLess(a, b)

\* os.path.join(directory, name)
PathJoin(dir, name) == dir \o <<SLASH>> \o name

\* os.path.basename(path): what follows the last separator
RECURSIVE Basename(_)
Basename(p) ==
    IF \E i \in 1..Len(p) : p[i] = SLASH
    THEN Basename(Tail(p))
    ELSE p

\* glob pattern "SUMMARY_*.json" applied to a file name
GlobMatches(name) ==
    /\ Len(name) >= Len(SUMMARY) + 1 + Len(DotJson)
    /\ SubSeq(name, 1, Len(SUMMARY) + 1) = SUMMARY \o <<US>>
    /\ SubSeq(name, Len(name) - Len(DotJson) + 1, Len(name)) = DotJson

(***************************************************************************)
(* Lines 34-48: the session label and the timestamp key of a file name.    *)
(***************************************************************************)
ParseName_FallbackStem(filename) ==
    LET stem == DropLast(filename, 5)
        parts == Split(stem, US)
    IN  IF Len(parts) >= 6
        THEN LET team_name == parts[2]
                 battle_mode == parts[3]
                 time_part == parts[6]
                 date_part == parts[5]
                 date_str == Slice(date_part, 0, 4) \o <<45>> \o Slice(date_part, 4, 6)
                               \o <<45>> \o Slice(date_part, 6, 8)
                 time_str == Slice(time_part, 0, 2) \o <<58>> \o Slice(time_part, 2, 4)
                               \o <<58>> \o Slice(time_part, 4, 6)
             IN  [session_id |-> team_name \o <<32, 91>> \o battle_mode \o <<93, 32, 45, 32>>
                                   \o date_str \o <<32>> \o time_str,
                  timestamp |-> date_part \o time_part]
        ELSE [session_id |-> stem, timestamp |-> ZeroStr]

ParseName(filename) ==
    LET parts == Split(DropLast(filename, 5), US)
    IN  IF Len(parts) >= 6
        THEN LET team_name == parts[2]
                 battle_mode == parts[3]
                 time_part == parts[6]
                 date_part == parts[5]
                 date_str == Slice(date_part, 0, 4) \o <<45>> \o Slice(date_part, 4, 6)
                               \o <<45>> \o Slice(date_part, 6, 8)
                 time_str == Slice(time_part, 0, 2) \o <<58>> \o Slice(time_part, 2, 4)
                               \o <<58>> \o Slice(time_part, 4, 6)
             IN  [session_id |-> team_name \o <<32, 91>> \o battle_mode \o <<93, 32, 45, 32>>
                                   \o date_str \o <<32>> \o time_str,
                  timestamp |-> date_part \o time_part]
        ELSE [session_id |-> filename, timestamp |-> ZeroStr]

(***************************************************************************)
(* JSON documents.  A value of a document is absent, a number or a string  *)
(* (a value that is present but not a number).                             *)
(***************************************************************************)
Absent == [t |-> "absent", n |-> 0]

Num(k) == [t |-> "num", n |-> k]

NonNumber == [t |-> "str", n |-> 0]

\* kind: "unreadable" (open fails), "badjson" (json.load fails),
\*       "nonobject" (a JSON array), "object"
\* chars: "ok" when every character entry has total_damage, "bad" otherwise
Doc(kind, dpav, av, chars) == [kind |-> kind, total_dpav |-> dpav, total_av |-> av, chars |-> chars]

Unreadable == Doc("unreadable", Absent, Absent, "ok")

BadJson == Doc("badjson", Absent, Absent, "ok")

NonObject == Doc("nonobject", Absent, Absent, "ok")

Object(dpav, av) == Doc("object", dpav, av, "ok")

\* line 50-51: open(filepath) and json.load(f) succeed
LoadJsonOk(fs, filepath) ==
    /\ filepath \in DOMAIN fs
    /\ fs[filepath].kind \in {"nonobject", "object"}

\* data.get(key, default): raises on a document that is not an object
GetRaises(doc) == doc.kind # "object"

DictGet_DefaultOne(v, default) == IF v.t = "absent" THEN Num(default + 1) ELSE v

DictGet(v, default) == IF v.t = "absent" THEN Num(default) ELSE v

NoRecord == [filepath |-> <<>>, session_id |-> <<>>, timestamp |-> <<>>,
             total_dpav |-> Absent, total_av |-> Absent]

\* lines 33-61: the body of the loop for one file; ok = FALSE when it raised
LoadOne(fs, filepath) ==
    LET filename == Basename(filepath)
        parsed == ParseName(filename)
    IN  IF LoadJsonOk(fs, filepath) /\ ~GetRaises(fs[filepath])
        THEN [ok |-> TRUE,
              rec |-> [filepath |-> filepath,
                       session_id |-> parsed.session_id,
                       timestamp |-> parsed.timestamp,
                       total_dpav |-> DictGet(fs[filepath].total_dpav, 0),
                       total_av |-> DictGet(fs[filepath].total_av, 0)]]
        ELSE [ok |-> FALSE, rec |-> NoRecord]

\* lines 31-61: the loop over the files in glob order
RECURSIVE ProcessFiles_StopAtError(_, _)
ProcessFiles_StopAtError(fs, summary_files) ==
    IF summary_files = <<>> THEN [all_data |-> <<>>, log |-> <<>>]
    ELSE LET one == LoadOne(fs, Head(summary_files))
             rest == ProcessFiles_StopAtError(fs, Tail(summary_files))
         IN  IF one.ok
             THEN [all_data |-> <<one.rec>> \o rest.all_data, log |-> rest.log]
             ELSE [all_data |-> <<>>, log |-> <<"ErrorProcessing">>]

RECURSIVE ProcessFiles(_, _)
ProcessFiles(fs, summary_files) ==
    IF summary_files = <<>> THEN [all_data |-> <<>>, log |-> <<>>]
    ELSE LET one == LoadOne(fs, Head(summary_files))
             rest == ProcessFiles(fs, Tail(summary_files))
         IN  IF one.ok
             THEN [all_data |-> <<one.rec>> \o rest.all_data, log |-> rest.log]
             ELSE [all_data |-> rest.all_data, log |-> <<"ErrorProcessing">> \o rest.log]

\* list.sort(key=timestamp, reverse=True): stable, descending
RECURSIVE InsertDesc(_, _)
InsertDesc(s, x) ==
    IF s = <<>> THEN <<x>>
    ELSE IF StrLess(s[1].timestamp, x.timestamp) THEN <<x>> \o s
    ELSE <<s[1]>> \o InsertDesc(Tail(s), x)

RECURSIVE InsertAsc(_, _)
InsertAsc(s, x) ==
    IF s = <<>> THEN <<x>>
    ELSE IF StrLess(x.timestamp, s[1].timestamp) THEN <<x>> \o s
    ELSE <<s[1]>> \o InsertAsc(Tail(s), x)

RECURSIVE SortAscending(_)
SortAscending(l) ==
    IF l = <<>> THEN <<>>
    ELSE InsertAsc(SortAscending(SubSeq(l, 1, Len(l) - 1)), l[Len(l)])

RECURSIVE SortByTimestamp(_)
SortByTimestamp(l) ==
    IF l = <<>> THEN <<>>
    ELSE InsertDesc(SortByTimestamp(SubSeq(l, 1, Len(l) - 1)), l[Len(l)])

\* lines 23-64; summary_files is the result of glob.glob
load_all_summaries(fs, summary_files) ==
    IF summary_files = <<>>
    THEN [isNone |-> TRUE, items |-> <<>>, log |-> <<"NoFiles">>]
    ELSE LET r == ProcessFiles(fs, summary_files)
         IN  [isNone |-> FALSE,
              items |-> IF r.all_data # <<>> THEN SortByTimestamp(r.all_data) ELSE r.all_data,
              log |-> <<"Found">> \o r.log]

\* truth value of self.summaries_data
Truthy(data) == ~data.isNone /\ data.items # <<>>

Perms(S) == {p \in [1..Cardinality(S) -> S] : \A i, j \in 1..Cardinality(S) : p[i] = p[j] => i = j}

\* glob.glob: the matching paths, in an order the file system chooses
GlobResults(fs) == Perms({p \in DOMAIN fs : GlobMatches(Basename(p))})

(***************************************************************************)
(* Lines 66-122: create_widgets.  The placeholder label, or one link per   *)
(* record (its text and the record it is bound to).                        *)
(***************************************************************************)
\* "View Detail - "
ViewDetailPrefix == <<86, 105, 101, 119, 32, 68, 101, 116, 97, 105, 108, 32, 45, 32>>

create_widgets_OnlyNone(data) ==
    IF data.isNone
    THEN [placeholder |-> TRUE, links |-> <<>>]
    ELSE [placeholder |-> FALSE,
          links |-> [i \in 1..Len(data.items) |->
                       [text |-> ViewDetailPrefix \o Basename(data.items[i].filepath),
                        summary |-> data.items[i]]]]

create_widgets(data) ==
    IF ~Truthy(data)
    THEN [placeholder |-> TRUE, links |-> <<>>]
    ELSE [placeholder |-> FALSE,
          links |-> [i \in 1..Len(data.items) |->
                       [text |-> ViewDetailPrefix \o Basename(data.items[i].filepath),
                        summary |-> data.items[i]]]]

(***************************************************************************)
(* Lines 124-168: create_comparison_plots.                                 *)
(***************************************************************************)
\* s.replace(' - ', '\n', 1)
RECURSIVE ReplaceFirstDash(_)
ReplaceFirstDash(s) ==
    IF Len(s) < 3 THEN s
    ELSE IF SubSeq(s, 1, 3) = <<32, 45, 32>> THEN <<10>> \o SubSeq(s, 4, Len(s))
    ELSE <<s[1]>> \o ReplaceFirstDash(Tail(s))

\* sorting, scaling (max * 1.3) or formatting (f"{v:,.0f}", f"{v:.2f}")
\* raises when a value of the column is not a number
PlotRaises(items) ==
    \E i \in 1..Len(items) : items[i].total_dpav.t # "num" \/ items[i].total_av.t # "num"

\* df.sort_values(by=..., ascending=...): every order of the rows that is
\* sorted; the order of rows with equal values is not specified
SortedOrders(values, ascending) ==
    {p \in Perms(1..Len(values)) :
        \A k \in 1..(Len(values) - 1) :
            IF ascending THEN values[p[k]] <= values[p[k + 1]]
            ELSE values[p[k]] >= values[p[k + 1]]}

\* lines 135-140 and 152-157: the bars of one view, in the order p
Bars(items, p, values, best_color, other_color) ==
    LET best_session == items[p[1]].session_id
    IN  [k \in 1..Len(items) |->
           [row |-> p[k],
            label |-> ReplaceFirstDash(items[p[k]].session_id),
            value |-> values[p[k]],
            color |-> IF items[p[k]].session_id = best_session
                      THEN best_color ELSE other_color]]

\* the column df["total_dpav"]
DpavOf(items) == [i \in 1..Len(items) |-> items[i].total_dpav.n]

\* the column df["total_av"]
AvOf(items) == [i \in 1..Len(items) |-> items[i].total_av.n]

DpavViews(items) ==
    {Bars(items, p, DpavOf(items), "gold", "skyblue") : p \in SortedOrders(DpavOf(items), FALSE)}

AvViews(items) ==
    {Bars(items, p, AvOf(items), "limegreen", "lightcoral") : p \in SortedOrders(AvOf(items), TRUE)}

(***************************************************************************)
(* Lines 170-208: show_detail_window.                                      *)
(***************************************************************************)
\* "Team Detail: "
TeamDetailPrefix == <<84, 101, 97, 109, 32, 68, 101, 116, 97, 105, 108, 58, 32>>

\* lines 171-176: open and json.load succeed
OpenDetailFile_MissingIsEmpty(fs, filepath) ==
    \/ filepath \notin DOMAIN fs
    \/ fs[filepath].kind \in {"nonobject", "object"}

OpenDetailFile(fs, filepath) ==
    /\ filepath \in DOMAIN fs
    /\ fs[filepath].kind \in {"nonobject", "object"}

\* lines 186-208 raise: data.get on a document that is not an object, or
\* d['total_damage'] on a character entry without it
DetailRenderRaises(fs, filepath) ==
    \/ filepath \notin DOMAIN fs
    \/ fs[filepath].kind # "object"
    \/ fs[filepath].chars # "ok"

NumClicks == Len(detail_windows) + Cardinality({k \in 1..Len(console) : console[k] = "CouldNotOpen"})

(***************************************************************************)
(* The input directories the model starts from.                            *)
(***************************************************************************)
\* "SUMMARY_Acheron_MoC_v1_20240115_143022.json"
N_Acheron1 ==
    <<83, 85, 77, 77, 65, 82, 89, 95, 65, 99, 104, 101, 114, 111, 110, 95, 77, 111, 67, 95, 118, 49, 95, 50, 48, 50, 52, 48, 49, 49, 53, 95, 49, 52, 51, 48, 50, 50, 46, 106, 115, 111, 110>>

\* "SUMMARY_Acheron_MoC_v2_20240115_143022.json"
N_Acheron2 ==
    <<83, 85, 77, 77, 65, 82, 89, 95, 65, 99, 104, 101, 114, 111, 110, 95, 77, 111, 67, 95, 118, 50, 95, 50, 48, 50, 52, 48, 49, 49, 53, 95, 49, 52, 51, 48, 50, 50, 46, 106, 115, 111, 110>>

\* "SUMMARY_Dan_Heng_AS_v1_20240301_090000.json"
N_DanHeng ==
    <<83, 85, 77, 77, 65, 82, 89, 95, 68, 97, 110, 95, 72, 101, 110, 103, 95, 65, 83, 95, 118, 49, 95, 50, 48, 50, 52, 48, 51, 48, 49, 95, 48, 57, 48, 48, 48, 48, 46, 106, 115, 111, 110>>

\* "SUMMARY_weird.json"
N_Weird ==
    <<83, 85, 77, 77, 65, 82, 89, 95, 119, 101, 105, 114, 100, 46, 106, 115, 111, 110>>

\* "SUMMARY_a_b_c_d.json"
N_Five ==
    <<83, 85, 77, 77, 65, 82, 89, 95, 97, 95, 98, 95, 99, 95, 100, 46, 106, 115, 111, 110>>

\* "SUMMARY_a_b_c__.json"
N_EmptyDate ==
    <<83, 85, 77, 77, 65, 82, 89, 95, 97, 95, 98, 95, 99, 95, 95, 46, 106, 115, 111, 110>>

\* "notes.json"
N_Notes ==
    <<110, 111, 116, 101, 115, 46, 106, 115, 111, 110>>

NamesA == {N_Acheron1, N_DanHeng, N_Weird, N_Five, N_EmptyDate, N_Notes}

DocsA == {Unreadable, Object(Absent, Absent)}

NamesB == {N_Acheron1, N_Acheron2}

DocsB == {Unreadable, BadJson, NonObject,
          Object(Num(1), Num(2)), Object(Num(2), Num(1)), Object(Absent, Num(1)),
          Object(NonNumber, Num(1)), Object(Num(1), NonNumber),
          Doc("object", Num(1), Num(1), "bad")}

Dirs(names, docs) ==
    UNION {[S -> docs] : S \in {T \in SUBSET {PathJoin(Directory, n) : n \in names} :
                                  Cardinality(T) <= MaxFiles}}

NotLoaded == [isNone |-> TRUE, items |-> <<>>]

Init ==
    /\ files \in Dirs(NamesA, DocsA) \cup Dirs(NamesB, DocsB)
    /\ pc = "init"
    /\ summaries_data = NotLoaded
    /\ placeholder = FALSE
    /\ links = <<>>
    /\ dpav_view = <<>>
    /\ av_view = <<>>
    /\ detail_windows = <<>>
    /\ console = <<>>

(***************************************************************************)
(* Lines 210-218 and 12-21: the program starts, InteractiveAnalyzer is     *)
(* constructed (load, widgets, plots) and the main loop is entered; an     *)
(* exception of the constructor ends the process.                          *)
(***************************************************************************)
Launch ==
    /\ pc = "init"
    /\ \E summary_files \in GlobResults(files) :
         LET data == load_all_summaries(files, summary_files)
             w == create_widgets(data)
         IN  /\ summaries_data' = [isNone |-> data.isNone, items |-> data.items]
             /\ placeholder' = w.placeholder
             /\ links' = w.links
             /\ IF Truthy(data)
                THEN IF PlotRaises(data.items)
                     THEN /\ pc' = "crashed"
                          /\ console' = console \o data.log \o <<"Traceback">>
                          /\ dpav_view' = <<>>
                          /\ av_view' = <<>>
                     ELSE /\ pc' = "mainloop"
                          /\ console' = console \o data.log
                          /\ dpav_view' \in DpavViews(data.items)
                          /\ av_view' \in AvViews(data.items)
                ELSE /\ pc' = "mainloop"
                     /\ console' = console \o data.log
                     /\ dpav_view' = <<>>
                     /\ av_view' = <<>>
    /\ UNCHANGED <<files, detail_windows>>

\* a click on link i: show_detail_window(summary), run as a Tk callback
ShowDetail(i) ==
    /\ pc = "mainloop"
    /\ i \in 1..Len(links)
    /\ NumClicks < MaxClicks
    /\ LET summary_info == links[i].summary
       IN  IF ~OpenDetailFile(files, summary_info.filepath)
           THEN /\ console' = Append(console, "CouldNotOpen")
                /\ UNCHANGED detail_windows
           ELSE /\ detail_windows' = Append(detail_windows,
                      [title |-> TeamDetailPrefix \o summary_info.session_id,
                       drawn |-> ~DetailRenderRaises(files, summary_info.filepath)])
                /\ console' = IF DetailRenderRaises(files, summary_info.filepath)
                              THEN Append(console, "TkCallbackException")
                              ELSE console
    /\ UNCHANGED <<files, pc, summaries_data, placeholder, links, dpav_view, av_view>>

\* the environment: a file of the directory is deleted while the window runs
RemoveFile(p) ==
    /\ pc = "mainloop"
    /\ p \in DOMAIN files
    /\ files' = [q \in DOMAIN files \ {p} |-> files[q]]
    /\ UNCHANGED <<pc, summaries_data, placeholder, links, dpav_view, av_view,
                   detail_windows, console>>

Next ==
    \/ Launch
    \/ \E i \in 1..MaxFiles : ShowDetail(i)
    \/ \E p \in DOMAIN files : RemoveFile(p)

Spec == Init /\ [][Next]_vars

(***************************************************************************)
(* Vocabulary of the properties.                                           *)
(***************************************************************************)
Items == summaries_data.items

NameParts(filepath) == Split(DropLast(Basename(filepath), 5), US)

IsDigits(s, n) == Len(s) = n /\ \A i \in 1..Len(s) : s[i] \in Digits

\* SUMMARY_<team>_<mode>_<...>_<YYYYMMDD>_<HHMMSS>: at least 6 parts, the
\* last two being the date and the time
PatternParts(parts) ==
    /\ Len(parts) >= 6
    /\ IsDigits(parts[Len(parts) - 1], 8)
    /\ IsDigits(parts[Len(parts)], 6)

\* "<team> [<mode>] - <YYYY>-<MM>-<DD> <HH>:<MM>:<SS>"
ExpectedLabel(team, mode, date, time) ==
    team \o <<32, 91>> \o mode \o <<93, 32, 45, 32>>
      \o SubSeq(date, 1, 4) \o <<45>> \o SubSeq(date, 5, 6) \o <<45>> \o SubSeq(date, 7, 8)
      \o <<32>>
      \o SubSeq(time, 1, 2) \o <<58>> \o SubSeq(time, 3, 4) \o <<58>> \o SubSeq(time, 5, 6)

Matching(fs) == {p \in DOMAIN fs : GlobMatches(Basename(p))}

Loads(fs, p) == fs[p].kind = "object"

CannotBeRead(fs, p) == p \notin DOMAIN fs \/ fs[p].kind \in {"unreadable", "badjson"}

RecordFields == {"filepath", "session_id", "timestamp", "total_dpav", "total_av"}

CountOf(seq, x) == Cardinality({k \in 1..Len(seq) : seq[k] = x})

\* C1: every record of a file named SUMMARY_<team>_<mode>_<...>_<date>_<time>
\* with 6 or more parts has the label "<team> [<mode>] - Y-M-D H:M:S" and
\* the key "<date><time>" built from the name's date and time segments.
C1_LabelAndKeyFromName ==
    \A i \in 1..Len(Items) :
        LET parts == NameParts(Items[i].filepath)
        IN  PatternParts(parts) =>
              /\ Items[i].session_id =
                   ExpectedLabel(parts[2], parts[3], parts[Len(parts) - 1], parts[Len(parts)])
              /\ Items[i].timestamp = parts[Len(parts) - 1] \o parts[Len(parts)]

\* C2: the load turns every matching file with fewer than 6 parts whose
\* content loads into a record labelled with the raw file name and keyed
\* "0"; the name alone never makes the load skip the file.
C2_MalformedNameFallback ==
    [][pc = "init" =>
         \A p \in Matching(files) :
             (Len(NameParts(p)) < 6 /\ Loads(files, p)) =>
                \E i \in 1..Len(summaries_data'.items) :
                    /\ summaries_data'.items[i].filepath = p
                    /\ summaries_data'.items[i].session_id = Basename(p)
                    /\ summaries_data'.items[i].timestamp = ZeroStr]_vars

C2_Witness ==
    /\ pc = "mainloop"
    /\ \E i \in 1..Len(Items) :
          /\ Len(NameParts(Items[i].filepath)) < 6
          /\ Items[i].session_id = Basename(Items[i].filepath)

\* C3: the loaded list is sorted by timestamp key, descending in the string
\* order: each record's key is >= the key of the record after it.
C3_SortedDescending ==
    \A k \in 1..(Len(Items) - 1) : StrLeq(Items[k + 1].timestamp, Items[k].timestamp)

C3_Witness ==
    /\ pc = "mainloop"
    /\ Len(Items) >= 2
    /\ StrLess(Items[2].timestamp, Items[1].timestamp)

\* C4: every record of a name with fewer than 6 parts comes after every
\* record of a name with 6 or more parts, whatever its date and time
\* segments hold.
C4_MalformedSortLast ==
    \A i, j \in 1..Len(Items) :
        (Len(NameParts(Items[i].filepath)) >= 6 /\ Len(NameParts(Items[j].filepath)) < 6)
            => i < j

\* C5: the load adds exactly one complete record for every matching file
\* processed without error, none for a file that cannot be opened or parsed
\* or whose processing raises, and it goes on to the other files (one error
\* message per failed file).
C5_OneRecordPerLoadedFile ==
    [][(pc = "init" /\ ~summaries_data'.isNone) =>
         /\ \A p \in Matching(files) :
               CountOf([i \in 1..Len(summaries_data'.items) |-> summaries_data'.items[i].filepath], p)
                 = IF Loads(files, p) THEN 1 ELSE 0
         /\ \A i \in 1..Len(summaries_data'.items) :
               /\ DOMAIN summaries_data'.items[i] = RecordFields
               /\ summaries_data'.items[i].filepath \in Matching(files)
         /\ CountOf(console', "ErrorProcessing")
              = Cardinality({p \in Matching(files) : ~Loads(files, p)})]_vars

C5_Witness ==
    /\ pc = "mainloop"
    /\ Len(Items) >= 1
    /\ CountOf(console, "ErrorProcessing") >= 1

\* C6: no error is fatal: whatever the directory holds and whatever is
\* clicked, the application never terminates with an error.
C6_NeverFatal == pc # "crashed"

\* C7: a click on a record whose file cannot be read or parsed opens no
\* detail window and leaves the main window running with the record list
\* and the overview unchanged; a click on a record whose file can be read
\* opens a window, also after failed clicks.
C7_FailedDetailOpensNothing ==
    [][\A i \in 1..Len(links) :
          ShowDetail(i) =>
             IF CannotBeRead(files, links[i].summary.filepath)
             THEN /\ detail_windows' = detail_windows
                  /\ pc' = "mainloop"
                  /\ UNCHANGED <<summaries_data, placeholder, links, dpav_view, av_view>>
             ELSE /\ Len(detail_windows') = Len(detail_windows) + 1
                  /\ pc' = "mainloop"]_vars

C7_Witness ==
    /\ pc = "mainloop"
    /\ CountOf(console, "CouldNotOpen") >= 1
    /\ Len(detail_windows) >= 1
    /\ \E i \in 1..Len(Items) : Items[i].filepath \notin DOMAIN files

\* C8: with no matching file the load returns an empty or absent result,
\* and whenever the loaded result is empty or absent only the placeholder
\* is shown: no link and no chart.
C8_EmptyShowsPlaceholderOnly ==
    [][/\ (pc = "init" /\ Matching(files) = {}) => ~Truthy(summaries_data')
       /\ (pc' # "init" /\ ~Truthy(summaries_data')) =>
             /\ placeholder'
             /\ links' = <<>>
             /\ dpav_view' = <<>>
             /\ av_view' = <<>>]_vars

C8_Witness ==
    /\ pc = "mainloop"
    /\ summaries_data.isNone
    /\ placeholder
    /\ "NoFiles" \in {console[k] : k \in 1..Len(console)}

\* C9: a document that is an object yields a record whose total_dpav and
\* total_av are 0 where the document lacks the field and the document's
\* value where it has it.
C9_MissingFieldsDefaultZero ==
    [][pc = "init" =>
         \A p \in Matching(files) :
             Loads(files, p) =>
                \E i \in 1..Len(summaries_data'.items) :
                    /\ summaries_data'.items[i].filepath = p
                    /\ summaries_data'.items[i].total_dpav =
                         (IF files[p].total_dpav = Absent THEN Num(0) ELSE files[p].total_dpav)
                    /\ summaries_data'.items[i].total_av =
                         (IF files[p].total_av = Absent THEN Num(0) ELSE files[p].total_av)]_vars

C9_Witness ==
    /\ pc = "mainloop"
    /\ \E i \in 1..Len(Items) :
          /\ Items[i].filepath \in DOMAIN files
          /\ files[Items[i].filepath].total_dpav = Absent
          /\ files[Items[i].filepath].total_av # Absent
          /\ Items[i].total_dpav = Num(0)
          /\ Items[i].total_av = files[Items[i].filepath].total_av

\* C10: each view lists all records, the DpAV view in descending total_dpav
\* and the AV view in ascending total_av, and in each view the first bar is
\* highlighted and every other bar has the other colour.
C10_OnlyBestHighlighted ==
    (pc = "mainloop" /\ Truthy(summaries_data)) =>
        /\ {dpav_view[k].row : k \in 1..Len(dpav_view)} = 1..Len(Items)
        /\ {av_view[k].row : k \in 1..Len(av_view)} = 1..Len(Items)
        /\ Len(dpav_view) = Len(Items)
        /\ Len(av_view) = Len(Items)
        /\ \A k \in 1..(Len(Items) - 1) :
              /\ dpav_view[k].value >= dpav_view[k + 1].value
              /\ av_view[k].value <= av_view[k + 1].value
        /\ dpav_view[1].color = "gold"
        /\ av_view[1].color = "limegreen"
        /\ \A k \in 2..Len(Items) :
              /\ dpav_view[k].color = "skyblue"
              /\ av_view[k].color = "lightcoral"

====
